---- MODULE Spec2Model ----
(***************************************************************************)
(* Model of the tabular transformation pipeline of work-reports-automation *)
(* (src/stock/stock.py, src/prices/prices.py, src/prices.py,               *)
(* src/utils/formatters.py, src/utils/formulas.py,                         *)
(* src/utils/column_creators.py, src/main.py).                             *)
(*                                                                         *)
(* A table (pandas DataFrame) is a record                                  *)
(*   [columns : sequence of names, index : sequence of row labels,         *)
(*    rows : sequence of rows, a row being the sequence of its cells in    *)
(*    column order].                                                       *)
(* A cell is a record [k, n, s]: k is "int", "float", "str" or "null";     *)
(* n is the number (a float is kept in tenths: 2.5 is n = 25); s is the    *)
(* text of a "str" cell as a sequence of one-character strings.            *)
(*                                                                         *)
(* Every transform is one action: it draws its arguments from bounded      *)
(* sets, runs the whole function and leaves the function's return value in *)
(* ret, the file it wrote in out_file and the messages it logged in log.   *)
(* caller_frame is the DataFrame object the caller handed to markup or to   *)
(* create_column, as the call left it (create_column assigns into the      *)
(* object it is handed); the other transforms work on a copy or on files   *)
(* and leave NoFrame there.                                                *)
(***************************************************************************)
EXTENDS Integers, Sequences, FiniteSets, TLC

VARIABLES pc, call, ret, out_file, log, caller_frame

vars == <<pc, call, ret, out_file, log, caller_frame>>

-----------------------------------------------------------------------------
(* Bounds of the model *)

\* longest caller-supplied list of column names (columns_to_move, columns_to_drop, ...)
MaxList == 2

\* most rows of an input table
MaxRows == 2

-----------------------------------------------------------------------------
(* Sequences *)

Range(s) == {s[i] : i \in 1..Len(s)}

\* Python "x in list"
In(x, s) == \E i \in 1..Len(s) : s[i] = x

\* Python list.index(x), 1-based; 0 stands for the ValueError of an absent x
IndexOf(s, x) ==
    IF In(x, s) THEN CHOOSE i \in 1..Len(s) : s[i] = x /\ \A j \in 1..(i - 1) : s[j] # x
    ELSE 0

\* Python [c for c in s if c not in t]
NotIn(s, t) == SelectSeq(s, LAMBDA c : ~In(c, t))

\* Python [c for c in s if c in t]
OnlyIn(s, t) == SelectSeq(s, LAMBDA c : In(c, t))

Distinct(s) == \A i, j \in 1..Len(s) : i # j => s[i] # s[j]

\* the sequences over S of length 0..n
SeqsUpTo(S, n) == UNION {[1..k -> S] : k \in 0..n}

\* the duplicate-free sequences over S of length 0..n
ListsUpTo(S, n) == {s \in SeqsUpTo(S, n) : Distinct(s)}

-----------------------------------------------------------------------------
(* Cells *)

Null == [k |-> "null", n |-> 0, s |-> <<>>]
IntV(i) == [k |-> "int", n |-> i, s |-> <<>>]
FloatV(tenths) == [k |-> "float", n |-> tenths, s |-> <<>>]
StrV(chars) == [k |-> "str", n |-> 0, s |-> chars]

\* a float with `places` decimal places, units / 10^places: what round() leaves
DecV(units, places) == [k |-> "dec", n |-> units, s |-> <<>>, places |-> places]

\* the float inf
InfV == [k |-> "inf", n |-> 0, s |-> <<>>]

-----------------------------------------------------------------------------
(* Tables, files, return values, log *)

RangeIndex(n) == [i \in 1..n |-> i - 1]

Table(columns, index, rows) == [columns |-> columns, index |-> index, rows |-> rows]

NRows(df) == Len(df.rows)

HasColumn(df, c) == In(c, df.columns)

\* df[c]: the cells of column c (the first column of that name), in row order
Column(df, c) == [i \in 1..NRows(df) |-> df.rows[i][IndexOf(df.columns, c)]]

\* an optional argument: None, or a value
None == [given |-> FALSE, v |-> <<>>]
Some(v) == [given |-> TRUE, v |-> v]

\* a path that resolves to no file, and one that holds a table
NoFile == [kind |-> "absent"]
File(df) == [kind |-> "file", table |-> df]

\* DataFrame.to_excel(path, index=False): the row labels are not written
ToExcel(df) == File(Table(df.columns, RangeIndex(NRows(df)), df.rows))

ReturnsNone == [kind |-> "none"]
ReturnsTable(df) == [kind |-> "table", table |-> df]
Raises(exc, cols) == [kind |-> "raise", exc |-> exc, cols |-> cols]

\* an exception whose message is msg and names `names`
Failure(exc, msg, names) == [kind |-> "raise", exc |-> exc, msg |-> msg, cols |-> names]

\* a returned Series: its cells in row order
ReturnsSeries(cells) == [kind |-> "series", values |-> cells]

LogEntry(level, msg, cols) == [level |-> level, msg |-> msg, cols |-> cols]

\* no DataFrame object of the caller that the call could have changed
NoFrame == [kind |-> "none"]

Outcome(r, f, l) == [ret |-> r, out_file |-> f, log |-> l, caller_frame |-> NoFrame]

Logged(level, msg) == \E i \in 1..Len(log) : log[i].level = level /\ log[i].msg = msg

-----------------------------------------------------------------------------
(* move_columns, src/stock/stock.py *)

DefaultColumnsToMove == <<"SalePrice", "InitialPrice", "PurchasePrice">>

\* columns_to_move after "if not columns_to_move": None and [] both take the default
EffectiveColumnsToMove(columns_to_move) ==
    IF ~columns_to_move.given \/ columns_to_move.v = <<>>
    THEN DefaultColumnsToMove
    ELSE columns_to_move.v

\* DataFrame.reindex(columns=new_columns) of a frame whose column names are unique:
\* each new column takes the cells of the column of that name, nulls if there is none
Reindex(df, new_columns) ==
    Table(new_columns, df.index,
          [i \in 1..NRows(df) |->
              [j \in 1..Len(new_columns) |->
                  IF HasColumn(df, new_columns[j])
                  THEN df.rows[i][IndexOf(df.columns, new_columns[j])]
                  ELSE Null]])

\* insert_at without the "+ 1": the block lands in front of the anchor
InsertAtBeforeAnchor(columns, after_column) == IndexOf(columns, after_column) - 1

\* insert_at = columns.index(after_column) + 1, as the count of columns kept in front
InsertAt(columns, after_column) == IndexOf(columns, after_column)

NewColumns(columns, insert_at, columns_to_move) ==
    SubSeq(columns, 1, insert_at) \o columns_to_move
        \o SubSeq(columns, insert_at + 1, Len(columns))

MoveColumns(input, after_column, columns_to_move) ==
    IF input.kind = "absent"
    THEN \* df stays None and list(df.columns) raises
         Outcome(Raises("AttributeError", <<>>), NoFile,
                 <<LogEntry("error", "File not found", <<>>)>>)
    ELSE
    LET df == input.table
        read == <<LogEntry("info", "Successfully read", <<>>)>>
        to_move == EffectiveColumnsToMove(columns_to_move)
        missing_columns == NotIn(to_move, df.columns)
        columns == NotIn(df.columns, to_move)
    IN  IF ~HasColumn(df, after_column)
        THEN Outcome(ReturnsNone, NoFile,
                     read \o <<LogEntry("error", "Column not found", <<after_column>>)>>)
        ELSE IF missing_columns # <<>>
        THEN Outcome(ReturnsNone, NoFile,
                     read \o <<LogEntry("error", "Missing required columns", missing_columns)>>)
        ELSE IF ~In(after_column, columns)
        THEN \* columns.index(after_column) raises
             Outcome(Raises("ValueError", <<after_column>>), NoFile, read)
        ELSE LET moved == Reindex(df, NewColumns(columns, InsertAt(columns, after_column), to_move))
             IN  Outcome(ReturnsTable(moved), ToExcel(moved),
                         read \o <<LogEntry("info", "Columns moved", <<>>)>>)

\* the column names of the tables move_columns is tried on
MoveNames == {"Subgen", "Brand", "SalePrice", "InitialPrice", "PurchasePrice"}

\* a cell that tells its column and its row
CellOf(c, i) ==
    IntV(10 * i + (CASE c = "Subgen" -> 1 [] c = "Brand" -> 2 [] c = "SalePrice" -> 3
                     [] c = "InitialPrice" -> 4 [] OTHER -> 5))

MoveTable(columns, n) ==
    Table(columns, RangeIndex(n), [i \in 1..n |-> [j \in 1..Len(columns) |-> CellOf(columns[j], i)]])

MoveInputs ==
    {NoFile} \cup {File(MoveTable(cols, 1)) : cols \in ListsUpTo(MoveNames, Cardinality(MoveNames))}

MoveLists == {None} \cup {Some(m) : m \in SeqsUpTo(MoveNames \cup {"Mkp"}, MaxList)}

-----------------------------------------------------------------------------
(* process_stock_report_df, src/stock/stock.py *)

Chars(text) ==
    CASE text = "OUTLET" -> <<"O", "U", "T", "L", "E", "T">>
      [] text = "7" -> <<"7">>
      [] text = "4" -> <<"4">>
      [] text = "x" -> <<"x">>
      [] text = "$7" -> <<"$", "7">>
      [] text = "1.5" -> <<"1", ".", "5">>
      [] text = "n.a" -> <<"n", ".", "a">>
      [] text = "Mkp" -> <<"M", "k", "p">>
      [] text = "M" -> <<"M">>
      [] OTHER -> <<>>

DefaultConceptFilter == Chars("OUTLET")

DefaultColumnsToDrop ==
    <<"STOCK_UPDATE", "SIZE", "Subcategory", "Licence", "Barcode",
      "STOCK_WITHOUT_REZERVED", "REZERVED">>

DefaultColumnsToFormatAsInt == <<"AVAILABLE">>

\* "if x is None: x = default": only None takes the default, an empty list stays empty
OrDefault(arg, default) == IF arg.given THEN arg.v ELSE default

IsDigit(c) == c \in {"0", "1", "2", "3", "4", "5", "6", "7", "8", "9"}

DigitValue(c) ==
    CASE c = "0" -> 0 [] c = "1" -> 1 [] c = "2" -> 2 [] c = "3" -> 3 [] c = "4" -> 4
      [] c = "5" -> 5 [] c = "6" -> 6 [] c = "7" -> 7 [] c = "8" -> 8 [] OTHER -> 9

RECURSIVE DigitsValue(_)
DigitsValue(chars) ==
    IF chars = <<>> THEN 0
    ELSE 10 * DigitsValue(SubSeq(chars, 1, Len(chars) - 1)) + DigitValue(chars[Len(chars)])

\* the texts int() accepts: digits, with an optional sign in front
IsIntText(chars) ==
    LET digits == IF chars # <<>> /\ chars[1] \in {"-", "+"} THEN Tail(chars) ELSE chars
    IN  digits # <<>> /\ \A i \in 1..Len(digits) : IsDigit(digits[i])

IntOfText(chars) ==
    IF chars[1] = "-" THEN 0 - DigitsValue(Tail(chars))
    ELSE IF chars[1] = "+" THEN DigitsValue(Tail(chars))
    ELSE DigitsValue(chars)

\* the integer part of a float kept in tenths, rounding towards zero
Truncate(tenths) == IF tenths >= 0 THEN tenths \div 10 ELSE 0 - ((0 - tenths) \div 10)

\* Series.astype(int) of one cell: whether it converts
CanCastToInt(cell) ==
    \/ cell.k = "int"
    \/ cell.k = "float"
    \/ cell.k = "str" /\ IsIntText(cell.s)

\* Series.astype(int) of one cell that converts: a float loses its fraction
CastToInt(cell) ==
    CASE cell.k = "int" -> cell
      [] cell.k = "float" -> IntV(Truncate(cell.n))
      [] OTHER -> IntV(IntOfText(cell.s))

\* DataFrame.drop(columns=names) raises KeyError unless every name is a column of df
CanDrop(df, names) == \A i \in 1..Len(names) : HasColumn(df, names[i])

\* DataFrame.drop(columns=names), every name being a column of df
DropColumns(df, names) ==
    LET keep == {j \in 1..Len(df.columns) : ~In(df.columns[j], names)}
        Pick(row) == SelectSeq([j \in 1..Len(row) |-> <<j, row[j]>>], LAMBDA e : e[1] \in keep)
    IN  Table(NotIn(df.columns, names), df.index,
              [i \in 1..NRows(df) |-> [j \in 1..Len(Pick(df.rows[i])) |-> Pick(df.rows[i])[j][2]]])

\* columns_to_drop handed to drop as it is, as process_stock_report of main.py does
DropStrict(df, columns_to_drop) == columns_to_drop

\* [col for col in columns_to_drop if col in df.columns]
DropPresent(df, columns_to_drop) == OnlyIn(columns_to_drop, df.columns)

\* the rows of df numbered in kept, with their labels
TakeRows(df, kept) ==
    Table(df.columns, [i \in 1..Len(kept) |-> df.index[kept[i]]],
          [i \in 1..Len(kept) |-> df.rows[kept[i]]])

\* DataFrame.query('Concept == "<concept_filter>"'), Concept being a column of df:
\* a cell that is no text equals no text
QueryConcept(df, concept_filter) ==
    LET j == IndexOf(df.columns, "Concept")
    IN  TakeRows(df, SelectSeq([i \in 1..NRows(df) |-> i],
                               LAMBDA i : df.rows[i][j].k = "str" /\ df.rows[i][j].s = concept_filter))

\* the filtered rows under the labels they had
KeepIndex(df) == df

\* DataFrame.reset_index(drop=True)
ResetIndex(df) == Table(df.columns, RangeIndex(NRows(df)), df.rows)

\* DataFrame.assign(c = x[c].astype(int)), c being a column of df whose cells all convert
AssignInt(df, c) ==
    LET j == IndexOf(df.columns, c)
    IN  Table(df.columns, df.index,
              [i \in 1..NRows(df) |-> [df.rows[i] EXCEPT ![j] = CastToInt(df.rows[i][j])]])

\* .assign(**format_assignments): column after column; the first that fails raises
RECURSIVE AssignInts(_, _)
AssignInts(df, cols) ==
    IF cols = <<>> THEN ReturnsTable(df)
    ELSE IF ~HasColumn(df, Head(cols)) THEN Raises("KeyError", <<Head(cols)>>)
    ELSE IF \E i \in 1..NRows(df) : ~CanCastToInt(Column(df, Head(cols))[i])
    THEN Raises("ValueError", <<Head(cols)>>)
    ELSE AssignInts(AssignInt(df, Head(cols)), Tail(cols))

ProcessStockReportDf(df, concept_filter, columns_to_drop, columns_to_format_as_int) ==
    LET filter == OrDefault(concept_filter, DefaultConceptFilter)
        to_drop == OrDefault(columns_to_drop, DefaultColumnsToDrop)
        to_int == OrDefault(columns_to_format_as_int, DefaultColumnsToFormatAsInt)
        present == DropPresent(df, to_drop)
        dropped == DropColumns(df, present)
        failed(r) == Outcome(r, NoFile, <<LogEntry("error", "An error occurred", r.cols)>>)
    IN  IF ~CanDrop(df, present)
        THEN failed(Raises("KeyError", NotIn(present, df.columns)))
        ELSE IF ~HasColumn(dropped, "Concept")
        THEN failed(Raises("UndefinedVariableError", <<"Concept">>))
        ELSE LET r == AssignInts(ResetIndex(QueryConcept(dropped, filter)), to_int)
             IN  IF r.kind = "raise" THEN failed(r)
                 ELSE Outcome(r, NoFile, <<LogEntry("info", "Successfully processed", r.table.columns)>>)

\* process_stock_report, src/main.py: a file in, a file out. columns_to_drop goes to
\* drop as it is, every exception of the chain is caught and logged, and the last
\* statement, after the try block, logs "Saved to"
ProcessStockReport(input, concept_filter, columns_to_drop, columns_to_format_as_int) ==
    LET filter == OrDefault(concept_filter, DefaultConceptFilter)
        to_drop == OrDefault(columns_to_drop, DefaultColumnsToDrop)
        to_int == OrDefault(columns_to_format_as_int, DefaultColumnsToFormatAsInt)
        saved == <<LogEntry("info", "Saved to", <<>>)>>
        failed(cols) ==
            Outcome(ReturnsNone, NoFile,
                    <<LogEntry("error", "An unexpected error occurred", cols)>> \o saved)
    IN  IF input.kind = "absent"
        THEN Outcome(ReturnsNone, NoFile, <<LogEntry("error", "File not found", <<>>)>> \o saved)
        ELSE IF ~CanDrop(input.table, to_drop)
        THEN failed(NotIn(to_drop, input.table.columns))
        ELSE LET dropped == DropColumns(input.table, to_drop)
             IN  IF ~HasColumn(dropped, "Concept")
                 THEN failed(<<"Concept">>)
                 ELSE LET r == AssignInts(ResetIndex(QueryConcept(dropped, filter)), to_int)
                      IN  IF r.kind = "raise" THEN failed(r.cols)
                          ELSE Outcome(ReturnsNone, ToExcel(r.table), saved)

\* the input tables of process_stock_report_df: a column layout and, for each row, a cell
\* of every column
StockLayouts ==
    { <<"Concept", "AVAILABLE", "SIZE">>, <<"SIZE", "AVAILABLE", "Concept">>,
      <<"Concept", "AVAILABLE">>, <<"AVAILABLE", "SIZE">>, <<"Concept", "SIZE">> }

StockCells ==
    [c \in {"Concept", "AVAILABLE", "SIZE"} |->
        CASE c = "Concept" -> {StrV(Chars("OUTLET")), StrV(Chars("7"))}
          [] c = "AVAILABLE" -> {IntV(3), FloatV(25), StrV(Chars("4")), StrV(Chars("x"))}
          [] OTHER -> {IntV(1)}]

\* the rows of a layout: a cell of cells[c] for every column c
RowsOf(layout, cells) ==
    {row \in [1..Len(layout) -> UNION {cells[layout[j]] : j \in 1..Len(layout)}] :
        \A j \in 1..Len(layout) : row[j] \in cells[layout[j]]}

\* the tables of a layout with up to MaxRows rows, as read_excel labels them
TablesOf(layout, cells) ==
    {Table(layout, RangeIndex(Len(rows)), rows) : rows \in SeqsUpTo(RowsOf(layout, cells), MaxRows)}

StockTables == UNION {TablesOf(layout, StockCells) : layout \in StockLayouts}

ConceptFilters == {None, Some(Chars("7"))}

DropLists == {None} \cup {Some(d) : d \in ListsUpTo({"SIZE", "Barcode", "Concept"}, MaxList)}

FormatLists == {None, Some(<<"AVAILABLE">>), Some(<<"Concept">>), Some(<<"Mkp">>)}

-----------------------------------------------------------------------------
(* create_pivot_table, src/stock/stock.py and src/main.py *)

DefaultIndexCols ==
    <<"SKU_CODE", "SKU_DESCRIPTION", "Brand", "Category", "Activity", "Gen", "Subgen">>

\* only the first absent name
FirstMissingColumn(required, columns) == SubSeq(NotIn(required, columns), 1, 1)

\* missing_columns = [col for col in required_columns if col not in df.columns]
MissingColumns(required, columns) == NotIn(required, columns)

\* the cells of one row under the columns named, in the order named
KeyOf(df, i, names) == [j \in 1..Len(names) |-> Column(df, names[j])[i]]

HasNull(cells) == \E j \in 1..Len(cells) : cells[j].k = "null"

\* lexicographic order of tuples of whole numbers
KeyLess(a, b) ==
    \E i \in 1..Len(a) : a[i].n < b[i].n /\ \A j \in 1..(i - 1) : a[j] = b[j]

\* the tuples of a set in ascending order, as groupby(sort=True) and unstack leave them
RECURSIVE SortKeys(_)
SortKeys(keys) ==
    IF keys = {} THEN <<>>
    ELSE LET least == CHOOSE k \in keys : \A other \in keys \ {k} : KeyLess(k, other)
         IN  <<least>> \o SortKeys(keys \ {least})

RECURSIVE SumCells(_)
SumCells(cells) == IF cells = <<>> THEN 0 ELSE Head(cells).n + SumCells(Tail(cells))

SupportedAgg == {"sum", "count"}

\* .agg(agg_func) of the cells of one group
Aggregate(agg_func, cells) ==
    IF agg_func = "sum" THEN IntV(SumCells(cells))
    ELSE IntV(Len(SelectSeq(cells, LAMBDA c : c.k # "null")))

\* unstack without fill_value
FillNull == Null

\* unstack(..., fill_value=0)
FillValue == IntV(0)

\* df.groupby(index_cols + [column_to_pivot])[value_column].agg(agg_func)
\*   .unstack(level=column_to_pivot, fill_value=0):
\* groupby leaves out the rows with a null among their key cells; the row keys and the
\* pivot values come out sorted; a combination without rows takes the fill value
PivotTable(df, index_cols, value_column, column_to_pivot, agg_func) ==
    LET grouped == {i \in 1..NRows(df) : ~HasNull(KeyOf(df, i, index_cols \o <<column_to_pivot>>))}
        keys == SortKeys({KeyOf(df, i, index_cols) : i \in grouped})
        values == SortKeys({KeyOf(df, i, <<column_to_pivot>>) : i \in grouped})
        members(k, v) ==
            SelectSeq([i \in 1..NRows(df) |-> i],
                      LAMBDA i : i \in grouped /\ KeyOf(df, i, index_cols) = k
                                    /\ KeyOf(df, i, <<column_to_pivot>>) = v)
        group(k, v) == [m \in 1..Len(members(k, v)) |-> Column(df, value_column)[members(k, v)[m]]]
    IN  [index_cols |-> index_cols,
         keys |-> keys,
         values |-> [j \in 1..Len(values) |-> values[j][1]],
         cells |-> [i \in 1..Len(keys) |-> [j \in 1..Len(values) |->
                       IF members(keys[i], values[j]) = <<>> THEN FillValue
                       ELSE Aggregate(agg_func, group(keys[i], values[j]))]]]

\* pivot_table.to_excel(output_file_path, index=True)
PivotFile(pivot) == [kind |-> "pivot", pivot |-> pivot]

CreatePivotTable(input, index_cols, value_column, column_to_pivot, agg_func) ==
    IF input.kind = "absent"
    THEN Outcome(ReturnsNone, NoFile, <<LogEntry("error", "File not found", <<>>)>>)
    ELSE
    LET df == input.table
        read == <<LogEntry("info", "Successfully read", df.columns)>>
        index == OrDefault(index_cols, DefaultIndexCols)
        required_columns == index \o <<value_column, column_to_pivot>>
        missing_columns == MissingColumns(required_columns, df.columns)
    IN  IF missing_columns # <<>>
        THEN Outcome(ReturnsNone, NoFile,
                     read \o <<LogEntry("error", "Missing required columns", missing_columns),
                               LogEntry("info", "Available columns", df.columns)>>)
        ELSE IF agg_func \notin SupportedAgg
        THEN \* .agg() raises AttributeError for a name that is no aggregation
             Outcome(ReturnsNone, NoFile,
                     read \o <<LogEntry("error", "Unexpected error during pivot table creation", <<>>)>>)
        ELSE IF index = <<>>
        THEN \* the grouped Series has a one-level index: unstack raises ValueError
             Outcome(ReturnsNone, NoFile,
                     read \o <<LogEntry("error", "Unexpected error during pivot table creation", <<>>)>>)
        ELSE Outcome(ReturnsNone,
                     PivotFile(PivotTable(df, index, value_column, column_to_pivot, agg_func)),
                     read \o <<LogEntry("info", "Successfully created pivot table", <<>>)>>)

\* the input tables of create_pivot_table
PivotLayouts ==
    { <<"SKU_CODE", "STORE_CODE", "AVAILABLE">>,
      <<"Brand", "SKU_CODE", "AVAILABLE", "STORE_CODE">>,
      <<"SKU_CODE", "AVAILABLE">>,
      <<"Brand", "STORE_CODE">> }

PivotCells ==
    [c \in {"SKU_CODE", "Brand", "STORE_CODE", "AVAILABLE"} |->
        CASE c = "Brand" -> {IntV(5), Null}
          [] OTHER -> {IntV(1), IntV(2)}]

PivotInputs ==
    {NoFile} \cup {File(df) : df \in UNION {TablesOf(layout, PivotCells) : layout \in PivotLayouts}}

IndexColLists ==
    {None} \cup {Some(cols) : cols \in ListsUpTo({"SKU_CODE", "Brand", "NoSuchCol"}, MaxList)}

AggFuncs == {"sum", "count", "total"}

-----------------------------------------------------------------------------
(* merge_tables, src/stock/stock.py and src/main.py *)

DefaultNeededPriceColumns == <<"SKU_CODE", "SalePrice", "InitialPrice", "PurchasePrice">>

DefaultMergeOn == "SKU_CODE"

\* "if not needed_price_columns": None and [] both take the default
EffectiveNeeded(needed_price_columns) ==
    IF ~needed_price_columns.given \/ needed_price_columns.v = <<>>
    THEN DefaultNeededPriceColumns
    ELSE needed_price_columns.v

\* "if not merge_on"
EffectiveMergeOn(merge_on) == IF merge_on.given THEN merge_on.v ELSE DefaultMergeOn

\* df[names], every name being a column of df
Select(df, names) ==
    Table(names, df.index,
          [i \in 1..NRows(df) |-> [j \in 1..Len(names) |-> Column(df, names[j])[i]]])

\* the price table without the column selection
WholePriceTable(prices_df, needed_price_columns) == prices_df

\* prices_df[needed_price_columns], the right side of the merge
RightFrame(prices_df, needed_price_columns) == Select(prices_df, needed_price_columns)

\* the columns of pd.merge(left, right, on=key): the left columns, then the right
\* columns but the key; a name both sides hold besides the key takes _x and _y
MergedColumns(left, right, key) ==
    LET others == NotIn(right.columns, <<key>>)
    IN  [j \in 1..Len(left.columns) |->
            IF left.columns[j] # key /\ In(left.columns[j], others)
            THEN left.columns[j] \o "_x" ELSE left.columns[j]]
        \o [j \in 1..Len(others) |->
            IF In(others[j], left.columns) THEN others[j] \o "_y" ELSE others[j]]

\* the right rows whose key cell equals the key cell of left row i, in right order
\* (pandas matches a null key with a null key)
Matches(left, right, key, i) ==
    SelectSeq([r \in 1..NRows(right) |-> r],
              LAMBDA r : Column(right, key)[r] = Column(left, key)[i])

\* how='inner': a left row without a match is dropped
InnerJoinRow(left_row, width) == <<>>

\* how='left': a left row without a match is kept once, with nulls on the right
UnmatchedRow(left_row, width) == <<left_row \o [j \in 1..width |-> Null]>>

\* the merged rows of left row i
JoinRow(left, right, key, i) ==
    LET others == NotIn(right.columns, <<key>>)
        m == Matches(left, right, key, i)
    IN  IF m = <<>> THEN UnmatchedRow(left.rows[i], Len(others))
        ELSE [k \in 1..Len(m) |->
                 left.rows[i] \o [j \in 1..Len(others) |-> Column(right, others[j])[m[k]]]]

RECURSIVE JoinRows(_, _, _, _)
JoinRows(left, right, key, i) ==
    IF i > NRows(left) THEN <<>>
    ELSE JoinRow(left, right, key, i) \o JoinRows(left, right, key, i + 1)

\* pd.merge(left, right, on=key, how='left'), key being a column of both
Merge(left, right, key) ==
    LET rows == JoinRows(left, right, key, 1)
    IN  Table(MergedColumns(left, right, key), RangeIndex(Len(rows)), rows)

MergeTables(prices, stock, needed_price_columns, merge_on) ==
    IF stock.kind = "absent" \/ prices.kind = "absent"
    THEN \* pd.read_excel is outside the try
         Outcome(Raises("FileNotFoundError", <<>>), NoFile,
                 IF stock.kind = "absent" THEN <<>>
                 ELSE <<LogEntry("info", "Successfully read", <<>>)>>)
    ELSE
    LET stock_table == stock.table
        prices_df == prices.table
        read == <<LogEntry("info", "Successfully read", <<>>),
                  LogEntry("info", "Successfully read", <<>>)>>
        needed == EffectiveNeeded(needed_price_columns)
        key == EffectiveMergeOn(merge_on)
        missing_columns == MissingColumns(needed, prices_df.columns)
    IN  IF missing_columns # <<>>
        THEN Outcome(ReturnsNone, NoFile,
                     read \o <<LogEntry("error", "Missing required columns", missing_columns)>>)
        ELSE LET right == RightFrame(prices_df, needed)
             IN  IF ~HasColumn(stock_table, key) \/ ~HasColumn(right, key)
                 THEN \* pd.merge raises KeyError(key)
                      Outcome(ReturnsNone, NoFile,
                              read \o <<LogEntry("error", "Column not found during merge", <<key>>)>>)
                 ELSE Outcome(ReturnsNone, ToExcel(Merge(stock_table, right, key)),
                              read \o <<LogEntry("info", "Successfully merged", <<>>)>>)

\* the input tables of merge_tables
MergeStockLayouts ==
    { <<"SKU_CODE", "Brand">>, <<"Brand">>, <<"Brand", "SKU_CODE", "SalePrice">> }

MergeStockCells ==
    [c \in {"SKU_CODE", "Brand", "SalePrice"} |->
        CASE c = "SKU_CODE" -> {IntV(1), IntV(2), Null}
          [] c = "Brand" -> {IntV(5)}
          [] OTHER -> {IntV(99)}]

MergePriceLayouts ==
    { <<"SKU_CODE", "SalePrice">>, <<"SalePrice">>,
      <<"SalePrice", "SKU_CODE", "InitialPrice", "PurchasePrice">> }

MergePriceCells ==
    [c \in {"SKU_CODE", "SalePrice", "InitialPrice", "PurchasePrice"} |->
        CASE c = "SKU_CODE" -> {IntV(1), Null}
          [] c = "SalePrice" -> {IntV(10), IntV(20)}
          [] c = "InitialPrice" -> {IntV(30)}
          [] OTHER -> {IntV(40)}]

MergeStockInputs ==
    {NoFile} \cup {File(df) : df \in UNION {TablesOf(l, MergeStockCells) : l \in MergeStockLayouts}}

MergePriceInputs ==
    {NoFile} \cup {File(df) : df \in UNION {TablesOf(l, MergePriceCells) : l \in MergePriceLayouts}}

NeededLists ==
    { None, Some(<<>>), Some(<<"SalePrice", "SKU_CODE">>),
      Some(<<"SalePrice">>), Some(<<"SKU_CODE", "Mkp">>), Some(<<"Mkp", "Gen">>) }

MergeOns == {None, Some("Brand")}

-----------------------------------------------------------------------------
(* price_to_float, src/utils/formatters.py *)

DigitChar(d) ==
    CASE d = 0 -> "0" [] d = 1 -> "1" [] d = 2 -> "2" [] d = 3 -> "3" [] d = 4 -> "4"
      [] d = 5 -> "5" [] d = 6 -> "6" [] d = 7 -> "7" [] d = 8 -> "8" [] OTHER -> "9"

RECURSIVE DigitsOf(_)
DigitsOf(n) == IF n < 10 THEN <<DigitChar(n)>> ELSE DigitsOf(n \div 10) \o <<DigitChar(n % 10)>>

\* str(n) of a whole number
IntText(n) == IF n < 0 THEN <<"-">> \o DigitsOf(0 - n) ELSE DigitsOf(n)

RECURSIVE Pow10(_)
Pow10(p) == IF p = 0 THEN 1 ELSE 10 * Pow10(p - 1)

\* the last p decimal digits of n, zeros in front included
RECURSIVE PadDigits(_, _)
PadDigits(n, p) == IF p = 0 THEN <<>> ELSE PadDigits(n \div 10, p - 1) \o <<DigitChar(n % 10)>>

\* the digits after the point as repr(float) prints them: no zero at the end, one digit
\* at least
RECURSIVE FractionText(_)
FractionText(digits) ==
    IF digits = <<>> THEN <<"0">>
    ELSE IF Len(digits) > 1 /\ digits[Len(digits)] = "0"
    THEN FractionText(SubSeq(digits, 1, Len(digits) - 1))
    ELSE digits

\* Series.astype(str) of one cell
AsStr(cell) ==
    CASE cell.k = "str" -> cell.s
      [] cell.k = "dec" ->
            DigitsOf(cell.n \div Pow10(cell.places))
                \o <<".">> \o FractionText(PadDigits(cell.n % Pow10(cell.places), cell.places))
      [] cell.k = "inf" -> <<"i", "n", "f">>
      [] cell.k = "int" -> IntText(cell.n)
      [] cell.k = "float" ->
            (IF cell.n < 0 THEN <<"-">> ELSE <<>>)
                \o DigitsOf((IF cell.n < 0 THEN 0 - cell.n ELSE cell.n) \div 10)
                \o <<".", DigitChar((IF cell.n < 0 THEN 0 - cell.n ELSE cell.n) % 10)>>
      [] OTHER -> <<"n", "a", "n">>

\* .str.replace(r'[^\d.]', '', regex=True): only digits and points are kept
StripNonNumeric(chars) == SelectSeq(chars, LAMBDA c : IsDigit(c) \/ c = ".")

Points(chars) == Len(SelectSeq(chars, LAMBDA c : c = "."))

\* the stripped texts pd.to_numeric parses: the empty text (as NaN) and the decimal
\* numerals; a lone point or a second point is a ValueError
Parses(chars) ==
    \/ chars = <<>>
    \/ Points(chars) <= 1 /\ \E i \in 1..Len(chars) : IsDigit(chars[i])

\* the number of a stripped text that parses: a float of up to one decimal place is kept
\* in tenths, one of more places with its places
ParseNumber(chars) ==
    IF chars = <<>> THEN Null
    ELSE IF Points(chars) = 0 THEN IntV(DigitsValue(chars))
    ELSE LET dot == IndexOf(chars, ".")
             whole == SubSeq(chars, 1, dot - 1)
             frac == SubSeq(chars, dot + 1, Len(chars))
         IN  IF Len(frac) <= 1
             THEN FloatV(10 * DigitsValue(whole) + (IF frac = <<>> THEN 0 ELSE DigitValue(frac[1])))
             ELSE DecV(DigitsValue(whole \o frac), Len(frac))

\* pd.to_numeric of a column of texts that all parse: whole numbers stay whole only if
\* every cell of the column is one
ToNumeric(texts) ==
    LET parsed == [i \in 1..Len(texts) |-> ParseNumber(texts[i])]
        whole == \A i \in 1..Len(parsed) : parsed[i].k = "int"
    IN  [i \in 1..Len(parsed) |->
            IF parsed[i].k = "int" /\ ~whole THEN FloatV(10 * parsed[i].n) ELSE parsed[i]]

\* df[c] = cells
SetColumn(df, c, cells) ==
    LET j == IndexOf(df.columns, c)
    IN  Table(df.columns, df.index,
              [i \in 1..NRows(df) |-> [df.rows[i] EXCEPT ![j] = cells[i]]])

\* the column as the first statement of the try block leaves it: stripped text
StrippedColumn(df, c) ==
    [i \in 1..NRows(df) |-> StrV(StripNonNumeric(AsStr(Column(df, c)[i])))]

\* one turn of the loop over needed_columns: the table and the message logged, if any
FormatColumn(df, c) ==
    IF ~HasColumn(df, c)
    THEN [table |-> df, log |-> <<LogEntry("warning", "Column not found", <<c>>)>>]
    ELSE LET stripped == SetColumn(df, c, StrippedColumn(df, c))
         IN  IF \E i \in 1..NRows(df) : ~Parses(Column(stripped, c)[i].s)
             THEN \* pd.to_numeric raises after the column was overwritten
                  [table |-> stripped, log |-> <<LogEntry("error", "Error converting column", <<c>>)>>]
             ELSE [table |-> SetColumn(df, c, ToNumeric([i \in 1..NRows(df) |-> Column(stripped, c)[i].s])),
                   log |-> <<>>]

RECURSIVE FormatColumns(_, _, _)
FormatColumns(df, cols, logged) ==
    IF cols = <<>> THEN [table |-> df, log |-> logged]
    ELSE LET step == FormatColumn(df, Head(cols))
         IN  FormatColumns(step.table, Tail(cols), logged \o step.log)

PriceToFloat(data_frame, needed_columns) ==
    IF ~needed_columns.given
    THEN Outcome(ReturnsTable(data_frame), NoFile,
                 <<LogEntry("warning", "No columns specified", <<>>)>>)
    ELSE LET done == FormatColumns(data_frame, needed_columns.v, <<>>)
         IN  Outcome(ReturnsTable(done.table), NoFile, done.log)

-----------------------------------------------------------------------------
(* clean_prices_table, src/prices/prices.py (a table in, a table out) and
   src/prices.py (a file in, a file out) *)

DefaultPlant == 4315

DefaultColumnsToRename == <<<<"Material", "SKU_CODE">>>>

DefaultColumnsToFormat == <<"SalePrice", "InitialPrice", "PurchasePrice">>

\* list(columns_to_rename.keys())
Keys(columns_to_rename) == [i \in 1..Len(columns_to_rename) |-> columns_to_rename[i][1]]

\* required_columns = ['Plant'] + list(columns_to_rename.keys())
RequiredColumns(columns_to_rename) == <<"Plant">> \o Keys(columns_to_rename)

\* cell == plant, plant being a whole number: a float equals it by value, text never
EqualsPlant(cell, plant) ==
    \/ cell.k = "int" /\ cell.n = plant
    \/ cell.k = "float" /\ cell.n = 10 * plant

\* df[df['Plant'] == plant], Plant being a column of df
FilterPlant(df, plant) ==
    TakeRows(df, SelectSeq([i \in 1..NRows(df) |-> i],
                           LAMBDA i : EqualsPlant(Column(df, "Plant")[i], plant)))

\* the column names left as they are
RenameNothing(columns, columns_to_rename) == columns

\* the column names after rename(columns=columns_to_rename)
Rename(columns, columns_to_rename) ==
    [j \in 1..Len(columns) |->
        IF In(columns[j], Keys(columns_to_rename))
        THEN columns_to_rename[IndexOf(Keys(columns_to_rename), columns[j])][2]
        ELSE columns[j]]

\* df[df['Plant'] == plant].reset_index(drop=True).rename(columns=columns_to_rename)
Cleaned(df, plant, columns_to_rename) ==
    LET kept == ResetIndex(FilterPlant(df, plant))
    IN  Table(Rename(kept.columns, columns_to_rename), kept.index, kept.rows)

\* src/prices/prices.py
CleanPricesTable(df, plant, columns_to_format, columns_to_rename) ==
    LET to_rename == OrDefault(columns_to_rename, DefaultColumnsToRename)
        formatted ==
            IF columns_to_format.given THEN Outcome(ReturnsTable(df), NoFile, <<>>)
            ELSE PriceToFloat(df, Some(DefaultColumnsToFormat))
        table == formatted.ret.table
        missing == MissingColumns(RequiredColumns(to_rename), table.columns)
    IN  IF missing # <<>>
        THEN Outcome(Raises("ValueError", missing), NoFile,
                     formatted.log \o <<LogEntry("error", "Missing expected columns", missing)>>)
        ELSE Outcome(ReturnsTable(Cleaned(table, plant, to_rename)), NoFile,
                     formatted.log \o <<LogEntry("info", "Successfully cleaned", <<>>)>>)

\* src/prices.py
CleanPricesFile(input, plant, columns_to_rename) ==
    IF input.kind = "absent"
    THEN Outcome(ReturnsNone, NoFile, <<LogEntry("error", "File not found", <<>>)>>)
    ELSE
    LET prices_data == input.table
        to_rename == OrDefault(columns_to_rename, DefaultColumnsToRename)
        read == <<LogEntry("info", "Successfully read", <<>>)>>
        missing == MissingColumns(RequiredColumns(to_rename), prices_data.columns)
    IN  IF missing # <<>>
        THEN Outcome(ReturnsNone, NoFile,
                     read \o <<LogEntry("error", "Missing expected columns", missing)>>)
        ELSE Outcome(ReturnsNone, ToExcel(Cleaned(prices_data, plant, to_rename)),
                     read \o <<LogEntry("info", "Successfully created", <<>>)>>)

\* the input tables of price_to_float and clean_prices_table
PriceLayouts ==
    { <<"Plant", "Material", "SalePrice">>, <<"Material", "Plant">>,
      <<"SalePrice", "Plant">>, <<"SalePrice", "PurchasePrice">> }

PriceCells ==
    [c \in {"Plant", "Material", "SalePrice", "PurchasePrice"} |->
        CASE c = "Plant" -> {IntV(DefaultPlant), IntV(7)}
          [] c = "Material" -> {IntV(1)}
          [] c = "SalePrice" -> {IntV(12), StrV(Chars("$7")), StrV(Chars("n.a")), StrV(Chars("1.5"))}
          [] OTHER -> {StrV(Chars("$7")), StrV(Chars("n.a"))}]

PriceTables == UNION {TablesOf(layout, PriceCells) : layout \in PriceLayouts}

PriceColumnLists ==
    {None} \cup {Some(cols) : cols \in ListsUpTo({"SalePrice", "PurchasePrice", "Mkp"}, MaxList)}

Plants == {DefaultPlant, 7}

RenameMaps ==
    { None, Some(<<>>), Some(<<<<"Material", "SKU">>>>),
      Some(<<<<"Material", "SKU">>, <<"Vendor", "Supplier">>>>),
      Some(<<<<"Vendor", "Supplier">>, <<"Plant", "Site">>>>) }

-----------------------------------------------------------------------------
(* markup, src/utils/formulas.py *)

\* vat_divisor, in hundredths
VatDivisor == [BG |-> 120, RO |-> 121, GR |-> 124]

DefaultCostPriceColumnName == "PurchasePrice"

DefaultSalePriceColumnName == "SalePrice"

DefaultCountry == "BG"

DefaultRoundTo == 2

NoFailure == [kind |-> "ok"]

\* the two checks the other way round: the columns first, the country second
ColumnsBeforeCountry(df, cost_price_column_name, sale_price_column_name, country) ==
    LET required_columns == <<cost_price_column_name, sale_price_column_name>>
        missing_columns == NotIn(required_columns, df.columns)
    IN  IF missing_columns # <<>>
        THEN Failure("ValueError", "Missing columns", missing_columns)
        ELSE IF country \notin DOMAIN VatDivisor
        THEN Failure("ValueError", "Country is not supported", <<country>>)
        ELSE NoFailure

\* the checks of markup in the order of the code: the first that fails raises
MarkupChecks(df, cost_price_column_name, sale_price_column_name, country) ==
    LET required_columns == <<cost_price_column_name, sale_price_column_name>>
        missing_columns == NotIn(required_columns, df.columns)
    IN  IF country \notin DOMAIN VatDivisor
        THEN Failure("ValueError", "Country is not supported", <<country>>)
        ELSE IF missing_columns # <<>>
        THEN Failure("ValueError", "Missing columns", missing_columns)
        ELSE NoFailure

\* num / den rounded to the nearest whole number, a tie going to the even one
\* (numpy.rint), for num >= 0 and den > 0
RoundHalfEven(num, den) ==
    LET q == num \div den
        twice == 2 * (num % den)
    IN  IF twice < den THEN q
        ELSE IF twice > den THEN q + 1
        ELSE IF q % 2 = 0 THEN q ELSE q + 1

\* the denominator of a number cell: its value is n / Scale(cell)
Scale(cell) ==
    CASE cell.k = "int" -> 1
      [] cell.k = "float" -> 10
      [] OTHER -> Pow10(cell.places)

\* (sale / vat / cost).round(round_to) of one row of non-negative numbers: NaN stays
\* NaN, a division by zero gives inf, or NaN for 0 / 0
MarkupCell(sale, cost, vat, round_to) ==
    IF sale.k = "null" \/ cost.k = "null" THEN Null
    ELSE IF cost.n = 0 THEN (IF sale.n = 0 THEN Null ELSE InfV)
    ELSE DecV(RoundHalfEven(sale.n * 100 * Scale(cost) * Pow10(round_to),
                            Scale(sale) * vat * cost.n),
              round_to)

\* a column that holds text divides with a TypeError
HoldsText(df, c) == \E i \in 1..NRows(df) : Column(df, c)[i].k = "str"

Markup(df, cost_price_column_name, sale_price_column_name, country, round_to) ==
    LET failed == MarkupChecks(df, cost_price_column_name, sale_price_column_name, country)
    IN  IF failed.kind = "raise" THEN failed
        ELSE IF HoldsText(df, sale_price_column_name)
        THEN Failure("TypeError", "unsupported operand", <<sale_price_column_name>>)
        ELSE IF HoldsText(df, cost_price_column_name)
        THEN Failure("TypeError", "unsupported operand", <<cost_price_column_name>>)
        ELSE ReturnsSeries([i \in 1..NRows(df) |->
                 MarkupCell(Column(df, sale_price_column_name)[i],
                            Column(df, cost_price_column_name)[i],
                            VatDivisor[country], round_to)])

-----------------------------------------------------------------------------
(* create_column, src/utils/column_creators.py *)

\* dataframe[column_name] = cells: the column is overwritten, or added at the end
AssignColumn(df, column_name, cells) ==
    IF HasColumn(df, column_name) THEN SetColumn(df, column_name, cells)
    ELSE Table(df.columns \o <<column_name>>, df.index,
               [i \in 1..NRows(df) |-> df.rows[i] \o <<cells[i]>>])

\* the parameters of move_columns of src/stock/stock.py, and those with a default
MoveColumnsParameters ==
    <<"input_file_path", "output_file_path", "after_column", "columns_to_move">>

MoveColumnsOptional == {"columns_to_move"}

\* the required parameters a call leaves without a value, given the number of its
\* positional arguments and the names of its keyword arguments
Unbound(positional, keywords) ==
    SelectSeq(SubSeq(MoveColumnsParameters, positional + 1, Len(MoveColumnsParameters)),
              LAMBDA p : p \notin keywords /\ p \notin MoveColumnsOptional)

\* move_columns(dataframe, after_column_name, columns_to_move=[column_name]): two
\* positional arguments and one keyword; after_column gets no value and the call raises
\* before move_columns runs
CallMoveColumns(dataframe, after_column_name, column_name) ==
    Failure("TypeError", "missing required positional argument",
            Unbound(2, {"columns_to_move"}))

\* formula(dataframe, *args, **kwargs), the formula being markup
ApplyFormula(dataframe, formula) ==
    Markup(dataframe, formula.cost_price_column_name, formula.sale_price_column_name,
           formula.country, formula.round_to)

\* formatter_func(dataframe, column_name), the formatter being price_to_float: the
\* name arrives as needed_columns and the loop walks over its characters
ApplyFormatter(dataframe, column_name) == PriceToFloat(dataframe, Some(Chars(column_name)))

CreateColumn(dataframe, column_name, after_column_name, formula, formatter_func) ==
    LET value == IF formula.given THEN ApplyFormula(dataframe, formula.v)
                 ELSE ReturnsSeries([i \in 1..NRows(dataframe) |-> Null])
    IN  IF value.kind = "raise"
        THEN \* the formula raises before the assignment
             [Outcome(value, NoFile, <<>>) EXCEPT !.caller_frame = dataframe]
        ELSE
        LET assigned == AssignColumn(dataframe, column_name, value.values)
            formatted == IF formatter_func.given THEN ApplyFormatter(assigned, column_name)
                         ELSE Outcome(ReturnsTable(assigned), NoFile, <<>>)
            moved == IF after_column_name.given /\ after_column_name.v # ""
                     THEN CallMoveColumns(formatted.ret.table, after_column_name.v, column_name)
                     ELSE formatted.ret
        IN  [Outcome(moved, NoFile, formatted.log) EXCEPT !.caller_frame = assigned]

\* the input tables of markup and create_column
ColumnLayouts ==
    { <<"PurchasePrice", "SalePrice", "Subgen">>, <<"Subgen", "SalePrice">>,
      <<"M", "PurchasePrice", "SalePrice">>, <<"Subgen">> }

ColumnCells ==
    [c \in {"PurchasePrice", "SalePrice", "Subgen", "M"} |->
        CASE c = "PurchasePrice" -> {IntV(100), IntV(0), Null}
          [] c = "SalePrice" -> {IntV(150), StrV(Chars("x"))}
          [] c = "Subgen" -> {IntV(1)}
          [] OTHER -> {StrV(Chars("$7"))}]

ColumnTables == UNION {TablesOf(layout, ColumnCells) : layout \in ColumnLayouts}

Countries == {DefaultCountry, "RO", "GR", "FR"}

\* the formulas handed to create_column: none, or markup with its keyword arguments
Formulas ==
    {None}
      \cup {Some([cost_price_column_name |-> cost,
                  sale_price_column_name |-> DefaultSalePriceColumnName,
                  country |-> country, round_to |-> DefaultRoundTo]) :
               cost \in {DefaultCostPriceColumnName, "Cost"}, country \in {DefaultCountry, "FR"}}
      \cup {Some([cost_price_column_name |-> DefaultCostPriceColumnName,
                  sale_price_column_name |-> DefaultSalePriceColumnName,
                  country |-> "RO", round_to |-> 1])}

Formatters == {None, Some("price_to_float")}

AfterColumnNames == {None, Some(""), Some("Subgen"), Some("Gone")}

-----------------------------------------------------------------------------
(* The state machine *)

Init ==
    /\ pc = "idle"
    /\ call = [op |-> "none"]
    /\ ret = ReturnsNone
    /\ out_file = NoFile
    /\ log = <<>>
    /\ caller_frame = NoFrame

Finish(o) ==
    /\ ret' = o.ret
    /\ out_file' = o.out_file
    /\ log' = o.log
    /\ caller_frame' = o.caller_frame
    /\ pc' = "done"

MoveColumnsCall ==
    /\ pc = "idle"
    /\ \E input \in MoveInputs, after_column \in MoveNames, columns_to_move \in MoveLists :
          /\ call' = [op |-> "move_columns", input |-> input, after_column |-> after_column,
                      columns_to_move |-> columns_to_move]
          /\ Finish(MoveColumns(input, after_column, columns_to_move))

NextMove == MoveColumnsCall

ProcessStockReportDfCall ==
    /\ pc = "idle"
    /\ \E df \in StockTables, concept_filter \in ConceptFilters,
          columns_to_drop \in DropLists, columns_to_format_as_int \in FormatLists :
          /\ call' = [op |-> "process_stock_report_df", df |-> df,
                      concept_filter |-> concept_filter, columns_to_drop |-> columns_to_drop,
                      columns_to_format_as_int |-> columns_to_format_as_int,
                      first |-> ReturnsNone]
          /\ Finish(ProcessStockReportDf(df, concept_filter, columns_to_drop,
                                         columns_to_format_as_int))

\* the caller passes the table it got back through process_stock_report_df once more,
\* with the arguments of the first call
ProcessStockReportDfAgain ==
    /\ pc = "done"
    /\ call.op = "process_stock_report_df"
    /\ ret.kind = "table"
    /\ call' = [call EXCEPT !.op = "process_stock_report_df_again", !.first = ret]
    /\ Finish(ProcessStockReportDf(ret.table, call.concept_filter, call.columns_to_drop,
                                   call.columns_to_format_as_int))

CreatePivotTableCall ==
    /\ pc = "idle"
    /\ \E input \in PivotInputs, index_cols \in IndexColLists, agg_func \in AggFuncs :
          /\ call' = [op |-> "create_pivot_table", input |-> input, index_cols |-> index_cols,
                      value_column |-> "AVAILABLE", column_to_pivot |-> "STORE_CODE",
                      agg_func |-> agg_func]
          /\ Finish(CreatePivotTable(input, index_cols, "AVAILABLE", "STORE_CODE", agg_func))

NextPivot == CreatePivotTableCall

SpecPivot == Init /\ [][NextPivot]_vars

MergeTablesCall ==
    /\ pc = "idle"
    /\ \E prices \in MergePriceInputs, stock \in MergeStockInputs,
          needed_price_columns \in NeededLists, merge_on \in MergeOns :
          /\ call' = [op |-> "merge_tables", prices |-> prices, stock |-> stock,
                      needed_price_columns |-> needed_price_columns, merge_on |-> merge_on]
          /\ Finish(MergeTables(prices, stock, needed_price_columns, merge_on))

NextMerge == MergeTablesCall

SpecMerge == Init /\ [][NextMerge]_vars

PriceToFloatCall ==
    /\ pc = "idle"
    /\ \E data_frame \in PriceTables, needed_columns \in PriceColumnLists :
          /\ call' = [op |-> "price_to_float", df |-> data_frame,
                      needed_columns |-> needed_columns]
          /\ Finish(PriceToFloat(data_frame, needed_columns))

CleanPricesTableCall ==
    /\ pc = "idle"
    /\ \E df \in PriceTables, plant \in Plants,
          columns_to_format \in {None, Some(<<"SalePrice">>)}, columns_to_rename \in RenameMaps :
          /\ call' = [op |-> "clean_prices_table", df |-> df, plant |-> plant,
                      columns_to_format |-> columns_to_format,
                      columns_to_rename |-> columns_to_rename]
          /\ Finish(CleanPricesTable(df, plant, columns_to_format, columns_to_rename))

CleanPricesFileCall ==
    /\ pc = "idle"
    /\ \E input \in {NoFile} \cup {File(df) : df \in PriceTables}, plant \in Plants,
          columns_to_rename \in RenameMaps :
          /\ call' = [op |-> "clean_prices_file", input |-> input,
                      plant |-> plant, columns_to_rename |-> columns_to_rename]
          /\ Finish(CleanPricesFile(input, plant, columns_to_rename))

NextPrices == PriceToFloatCall \/ CleanPricesTableCall \/ CleanPricesFileCall

SpecPrices == Init /\ [][NextPrices]_vars

NextStock == ProcessStockReportDfCall \/ ProcessStockReportDfAgain

SpecStock == Init /\ [][NextStock]_vars

ProcessStockReportCall ==
    /\ pc = "idle"
    /\ \E input \in {NoFile} \cup {File(df) : df \in StockTables},
          concept_filter \in ConceptFilters, columns_to_drop \in DropLists,
          columns_to_format_as_int \in FormatLists :
          /\ call' = [op |-> "process_stock_report", input |-> input,
                      concept_filter |-> concept_filter, columns_to_drop |-> columns_to_drop,
                      columns_to_format_as_int |-> columns_to_format_as_int]
          /\ Finish(ProcessStockReport(input, concept_filter, columns_to_drop,
                                       columns_to_format_as_int))

NextReport == ProcessStockReportCall

SpecReport == Init /\ [][NextReport]_vars

SpecMove == Init /\ [][NextMove]_vars

MarkupCall ==
    /\ pc = "idle"
    /\ \E df \in ColumnTables, cost_price_column_name \in {DefaultCostPriceColumnName, "Cost"},
          country \in Countries, round_to \in 0..DefaultRoundTo :
          /\ call' = [op |-> "markup", df |-> df,
                      cost_price_column_name |-> cost_price_column_name,
                      sale_price_column_name |-> DefaultSalePriceColumnName,
                      country |-> country, round_to |-> round_to]
          /\ Finish([Outcome(Markup(df, cost_price_column_name, DefaultSalePriceColumnName,
                                    country, round_to), NoFile, <<>>)
                        EXCEPT !.caller_frame = df])

CreateColumnCall ==
    /\ pc = "idle"
    /\ \E df \in ColumnTables, column_name \in {"Mkp", "M"},
          after_column_name \in AfterColumnNames, formula \in Formulas,
          formatter_func \in Formatters :
          /\ call' = [op |-> "create_column", df |-> df, column_name |-> column_name,
                      after_column_name |-> after_column_name, formula |-> formula,
                      formatter_func |-> formatter_func]
          /\ Finish(CreateColumn(df, column_name, after_column_name, formula, formatter_func))

NextColumn == MarkupCall \/ CreateColumnCall

SpecColumn == Init /\ [][NextColumn]_vars

\* the transforms that validate a country or column names handed to them
NextTransforms == MarkupCall \/ CreateColumnCall \/ MoveColumnsCall

SpecTransforms == Init /\ [][NextTransforms]_vars

-----------------------------------------------------------------------------
(* ColumnPositioner: the claims about move_columns *)

MoveDone == pc = "done" /\ call.op = "move_columns" /\ call.input.kind = "file"

\* anchor and every name of the list are columns of the table, the anchor is not in the list
MoveValid(df, anchor, to_move) ==
    /\ HasColumn(df, anchor)
    /\ \A i \in 1..Len(to_move) : HasColumn(df, to_move[i])
    /\ ~In(anchor, to_move)

\* the order the claim describes: to_move taken out, then put back as one block after the anchor
BlockAfterAnchor(columns, anchor, to_move) ==
    LET reduced == NotIn(columns, to_move)
        p == IndexOf(reduced, anchor)
    IN  SubSeq(reduced, 1, p) \o to_move \o SubSeq(reduced, p + 1, Len(reduced))

\* a and b, not moved, stand in the output in the order they stand in the input
KeepsOrder(before, after, to_move) ==
    \A a, b \in Range(before) \ Range(to_move) :
        IndexOf(before, a) < IndexOf(before, b) => IndexOf(after, a) < IndexOf(after, b)

\* no column added or lost, and every column keeps its cells
SameColumns(df, moved) ==
    /\ Len(moved.columns) = Len(df.columns)
    /\ Range(moved.columns) = Range(df.columns)
    /\ \A c \in Range(df.columns) : Column(moved, c) = Column(df, c)

Repositioned(df, anchor, to_move) ==
    /\ ret.kind = "table"
    /\ ret.table.columns = BlockAfterAnchor(df.columns, anchor, to_move)
    /\ \A k \in 1..Len(to_move) :
          ret.table.columns[IndexOf(ret.table.columns, anchor) + k] = to_move[k]
    /\ KeepsOrder(df.columns, ret.table.columns, to_move)
    /\ SameColumns(df, ret.table)
    /\ out_file = ToExcel(ret.table)

\* C1 as stated: for every table, every anchor in it and every columns_to_move whose
\* names are all in the table and do not include the anchor, move_columns returns the
\* input order with columns_to_move removed and reinserted as one block right after
\* the anchor, non-moved columns keeping their order, no column added or lost.
C1_AsStated ==
    (MoveDone /\ call.columns_to_move.given
        /\ MoveValid(call.input.table, call.after_column, call.columns_to_move.v))
    => Repositioned(call.input.table, call.after_column, call.columns_to_move.v)

\* C1 amended: the same, for every non-empty columns_to_move without a repeated name
\* (an empty list is replaced by the default SalePrice, InitialPrice, PurchasePrice).
C1_Reposition ==
    (MoveDone /\ call.columns_to_move.given
        /\ call.columns_to_move.v # <<>> /\ Distinct(call.columns_to_move.v)
        /\ MoveValid(call.input.table, call.after_column, call.columns_to_move.v))
    => Repositioned(call.input.table, call.after_column, call.columns_to_move.v)

\* a two-column block was moved over other columns to follow the anchor
C1_Witness ==
    /\ MoveDone /\ call.columns_to_move.given
    /\ Len(call.columns_to_move.v) = 2 /\ Distinct(call.columns_to_move.v)
    /\ MoveValid(call.input.table, call.after_column, call.columns_to_move.v)
    /\ ret.kind = "table"
    /\ ret.table.columns # call.input.table.columns
    /\ IndexOf(ret.table.columns, call.after_column) > 1
    /\ IndexOf(ret.table.columns, call.after_column) + 2 < Len(ret.table.columns)

-----------------------------------------------------------------------------
(* StockProcessor: the claims about process_stock_report_df *)

StockDone == pc = "done" /\ call.op = "process_stock_report_df"

StockAgainDone == pc = "done" /\ call.op = "process_stock_report_df_again"

StockFilter == OrDefault(call.concept_filter, DefaultConceptFilter)
StockToDrop == OrDefault(call.columns_to_drop, DefaultColumnsToDrop)
StockToInt == OrDefault(call.columns_to_format_as_int, DefaultColumnsToFormatAsInt)

\* the numbers of the rows of df whose Concept is the text wanted, in input order
ConceptRows(df, wanted) ==
    IF ~HasColumn(df, "Concept") THEN <<>>
    ELSE SelectSeq([i \in 1..NRows(df) |-> i],
                   LAMBDA i : Column(df, "Concept")[i] = StrV(wanted))

\* a cell that is no whole number: a float with a fraction, or text that is no integer
NonIntegral(cell) ==
    \/ cell.k = "float" /\ cell.n % 10 # 0
    \/ cell.k = "str" /\ ~IsIntText(cell.s)

\* C6 as stated: when a column of columns_to_format_as_int holds a non-integral value in
\* a row that passes the Concept filter, process_stock_report_df fails; it never
\* returns a table in which the value was truncated.
C6_AsStated ==
    (StockDone
        /\ \E c \in Range(StockToInt) :
              /\ HasColumn(call.df, c)
              /\ \E i \in Range(ConceptRows(call.df, StockFilter)) :
                    NonIntegral(Column(call.df, c)[i]))
    => ret.kind = "raise"

\* C7, first half: the output holds the input rows whose Concept equals the filter
\* (compared on the columns that are not coerced), in input order, numbered 0..n-1.
FilteredInOrder ==
    LET kept == ConceptRows(call.df, StockFilter)
        out == ret.table
    IN  /\ NRows(out) = Len(kept)
        /\ out.index = RangeIndex(Len(kept))
        /\ \A i \in 1..Len(kept) :
              \A c \in Range(out.columns) \ Range(StockToInt) :
                  Column(out, c)[i] = Column(call.df, c)[kept[i]]

\* C7 as stated: process_stock_report_df returns the rows whose Concept equals
\* concept_filter, in input order, numbered 0..n-1, and a second pass over its output
\* with the same arguments returns an equal table.
C7_AsStated ==
    /\ (StockDone /\ ret.kind = "table") => FilteredInOrder
    /\ StockAgainDone => ret = call.first

\* C7 amended: the same, the second pass returning an equal table whenever Concept is
\* not one of columns_to_format_as_int.
C7_FilterIdempotent ==
    /\ (StockDone /\ ret.kind = "table") => FilteredInOrder
    /\ (StockAgainDone /\ ~In("Concept", StockToInt)) => ret = call.first

\* the second pass ran over a table that had lost its first row to the filter and kept one
C7_Witness ==
    /\ StockAgainDone
    /\ ~In("Concept", StockToInt)
    /\ NRows(call.df) > NRows(call.first.table)
    /\ NRows(call.first.table) > 0
    /\ Column(call.df, "Concept")[1] # StrV(StockFilter)
    /\ ret = call.first

\* C8: names of columns_to_drop that the table lacks change nothing of the outcome; a
\* returned table has none of the named columns and every other input column in input
\* order; the drop comes before the Concept filter, which fails once Concept is dropped.
C8_DropTolerant ==
    StockDone =>
        /\ ProcessStockReportDf(call.df, call.concept_filter,
                                Some(OnlyIn(StockToDrop, call.df.columns)),
                                call.columns_to_format_as_int)
              = Outcome(ret, out_file, log)
        /\ ~(ret.kind = "raise" /\ ret.exc = "KeyError"
                /\ \E i \in 1..Len(ret.cols) : In(ret.cols[i], StockToDrop))
        /\ ret.kind = "table" => ret.table.columns = NotIn(call.df.columns, StockToDrop)
        /\ In("Concept", StockToDrop) => ret.kind = "raise"

\* a call that names a column the table lacks and one it has, and returns rows
C8_Witness ==
    /\ StockDone
    /\ \E i \in 1..Len(StockToDrop) : ~HasColumn(call.df, StockToDrop[i])
    /\ \E i \in 1..Len(StockToDrop) : HasColumn(call.df, StockToDrop[i])
    /\ ret.kind = "table"
    /\ NRows(ret.table) > 0
    /\ Len(ret.table.columns) < Len(call.df.columns)

-----------------------------------------------------------------------------
(* PivotBuilder: the claims about create_pivot_table *)

PivotDone == pc = "done" /\ call.op = "create_pivot_table" /\ call.input.kind = "file"

PivotIndex == OrDefault(call.index_cols, DefaultIndexCols)

PivotRequired == PivotIndex \o <<call.value_column, call.column_to_pivot>>

\* the required names the input table lacks
PivotAbsent == {c \in Range(PivotRequired) : ~HasColumn(call.input.table, c)}

\* the rows of the input with index key k and pivot value v
RowsAt(k, v) ==
    {i \in 1..NRows(call.input.table) :
        /\ KeyOf(call.input.table, i, PivotIndex) = k
        /\ Column(call.input.table, call.column_to_pivot)[i] = v}

RECURSIVE SumOver(_)
SumOver(rows) ==
    IF rows = {} THEN 0
    ELSE LET i == CHOOSE r \in rows : TRUE
         IN  Column(call.input.table, call.value_column)[i].n + SumOver(rows \ {i})

\* what the claim expects in the cell at (k, v)
ExpectedCell(k, v) ==
    IF RowsAt(k, v) = {} THEN IntV(0)
    ELSE IF call.agg_func = "sum" THEN IntV(SumOver(RowsAt(k, v)))
    ELSE IntV(Cardinality(RowsAt(k, v)))

\* the written pivot has a row for k and a column for v, and the expected cell there
CellIs(k, v) ==
    /\ out_file.kind = "pivot"
    /\ In(k, out_file.pivot.keys)
    /\ In(v, out_file.pivot.values)
    /\ out_file.pivot.cells[IndexOf(out_file.pivot.keys, k)][IndexOf(out_file.pivot.values, v)]
          = ExpectedCell(k, v)

\* C2 as stated: for every input table holding all required columns, every index key
\* that occurs in the input and every value of the pivot column, the output cell is the
\* aggregate of value_column over the rows with that key and value, and 0 when there
\* is no such row.
C2_AsStated ==
    (PivotDone /\ PivotAbsent = {} /\ call.agg_func \in SupportedAgg)
    => \A i, j \in 1..NRows(call.input.table) :
          CellIs(KeyOf(call.input.table, i, PivotIndex),
                 Column(call.input.table, call.column_to_pivot)[j])

\* a row takes part in the grouping: none of its index and pivot cells is null
Grouped(i) ==
    ~HasNull(KeyOf(call.input.table, i, PivotIndex \o <<call.column_to_pivot>>))

\* C2 amended: the same for a non-empty index_cols, every index key and every pivot
\* value being taken from rows whose index and pivot cells are all non-null (groupby
\* leaves the other rows out).
C2_PivotFill ==
    (PivotDone /\ PivotAbsent = {} /\ call.agg_func \in SupportedAgg /\ PivotIndex # <<>>)
    => \A i, j \in {r \in 1..NRows(call.input.table) : Grouped(r)} :
          CellIs(KeyOf(call.input.table, i, PivotIndex),
                 Column(call.input.table, call.column_to_pivot)[j])

\* two rows of different keys and pivot values: two aggregated cells and two cells of 0
C2_Witness ==
    /\ PivotDone /\ out_file.kind = "pivot" /\ call.agg_func = "sum"
    /\ Len(out_file.pivot.keys) = 2 /\ Len(out_file.pivot.values) = 2
    /\ out_file.pivot.cells[1][2] = IntV(0)
    /\ out_file.pivot.cells[2][1] = IntV(0)
    /\ out_file.pivot.cells[1][1] = IntV(2)
    /\ RowsAt(out_file.pivot.keys[1], out_file.pivot.values[2]) = {}

\* C3: when a required name is absent from the input table, create_pivot_table reports
\* a missing-columns error that lists exactly the absent names, all of them, and neither
\* groups nor writes an output.
C3_MissingColumns ==
    (PivotDone /\ PivotAbsent # {})
    => /\ \E i \in 1..Len(log) :
             /\ log[i].level = "error" /\ log[i].msg = "Missing required columns"
             /\ Range(log[i].cols) = PivotAbsent
             /\ log[i].cols = NotIn(PivotRequired, call.input.table.columns)
       /\ ret = ReturnsNone
       /\ out_file = NoFile
       /\ ~Logged("info", "Successfully created pivot table")
       /\ ~Logged("error", "Unexpected error during pivot table creation")
       /\ ~Logged("error", "Column not found during pivot table creation")

\* a call whose table lacks two of the required names
C3_Witness ==
    /\ PivotDone
    /\ Cardinality(PivotAbsent) >= 2
    /\ Logged("error", "Missing required columns")
    /\ out_file = NoFile

-----------------------------------------------------------------------------
(* TableMerger: the claims about merge_tables *)

MergeDone ==
    /\ pc = "done" /\ call.op = "merge_tables"
    /\ call.prices.kind = "file" /\ call.stock.kind = "file"

MergeNeeded == EffectiveNeeded(call.needed_price_columns)

MergeKey == EffectiveMergeOn(call.merge_on)

\* the price columns attached to a stock row: the needed columns but the key
Attached == NotIn(MergeNeeded, <<MergeKey>>)

\* the price rows whose key equals the key of stock row i
PriceMatches(i) ==
    {r \in 1..NRows(call.prices.table) :
        Column(call.prices.table, MergeKey)[r] = Column(call.stock.table, MergeKey)[i]}

\* the number of output rows of stock row i: one without a match, else one per match
Fan(i) == IF PriceMatches(i) = {} THEN 1 ELSE Cardinality(PriceMatches(i))

RECURSIVE FanBefore(_)
FanBefore(i) == IF i <= 1 THEN 0 ELSE FanBefore(i - 1) + Fan(i - 1)

\* the k-th match of stock row i, in price-table order
NthMatch(i, k) ==
    CHOOSE r \in PriceMatches(i) : Cardinality({q \in PriceMatches(i) : q < r}) = k - 1

\* C4: merge_tables is a left join on merge_on: a stock row without a match gives one
\* output row with nulls in the price columns, a stock row with one match one output row
\* with the price columns of the match, a stock row with k matches k output rows; no
\* stock row is dropped and the stock rows keep their order.
C4_LeftJoin ==
    (MergeDone /\ out_file.kind = "file")
    => LET stock == call.stock.table
           merged == out_file.table
           width == Len(stock.columns)
       IN  /\ NRows(merged) = FanBefore(NRows(stock) + 1)
           /\ Len(merged.columns) = width + Len(Attached)
           /\ \A i \in 1..NRows(stock) : \A k \in 1..Fan(i) :
                 LET row == merged.rows[FanBefore(i) + k]
                 IN  /\ SubSeq(row, 1, width) = stock.rows[i]
                     /\ \A j \in 1..Len(Attached) :
                           row[width + j] =
                               IF PriceMatches(i) = {} THEN Null
                               ELSE Column(call.prices.table, Attached[j])[NthMatch(i, k)]

\* a stock row without a match followed by a stock row with two matches: three rows out
C4_Witness ==
    /\ MergeDone /\ out_file.kind = "file"
    /\ NRows(call.stock.table) = 2
    /\ PriceMatches(1) = {}
    /\ Cardinality(PriceMatches(2)) = 2
    /\ NRows(out_file.table) = 3
    /\ out_file.table.rows[2] # out_file.table.rows[3]

\* C5: merge_tables reports a column failure and writes no merged output whenever a
\* needed price column is absent from the price table or merge_on is absent from either
\* table, also when merge_on is a column of the price table that the needed columns
\* leave out.
C5_MergeFails ==
    (MergeDone
        /\ \/ \E c \in Range(MergeNeeded) : ~HasColumn(call.prices.table, c)
           \/ ~HasColumn(call.stock.table, MergeKey)
           \/ ~HasColumn(call.prices.table, MergeKey)
           \/ ~In(MergeKey, MergeNeeded))
    => /\ \/ Logged("error", "Missing required columns")
          \/ Logged("error", "Column not found during merge")
       /\ log[Len(log)].level = "error"
       /\ log[Len(log)].cols # <<>>
       /\ ret = ReturnsNone
       /\ out_file = NoFile
       /\ ~Logged("info", "Successfully merged")

\* merge_on is in both tables and every needed column is in the price table, but the
\* needed columns leave merge_on out
C5_Witness ==
    /\ MergeDone
    /\ HasColumn(call.stock.table, MergeKey)
    /\ HasColumn(call.prices.table, MergeKey)
    /\ \A c \in Range(MergeNeeded) : HasColumn(call.prices.table, c)
    /\ ~In(MergeKey, MergeNeeded)
    /\ NRows(call.stock.table) > 0
    /\ Logged("error", "Column not found during merge")
    /\ out_file = NoFile

-----------------------------------------------------------------------------
(* PriceFormatter: the claim about price_to_float *)

FormatDone == pc = "done" /\ call.op = "price_to_float" /\ call.needed_columns.given

\* the numeric conversion of column c of the input fails
ConversionFails(c) ==
    \E i \in 1..NRows(call.df) : ~Parses(StripNonNumeric(AsStr(Column(call.df, c)[i])))

\* C9 as stated: when the numeric conversion of a named column fails, the failure is
\* caught, the column holds its original values in the returned table, and every other
\* named column that converts is converted.
C9_AsStated ==
    FormatDone
    => /\ ret.kind = "table"
       /\ \A c \in Range(call.needed_columns.v) :
             HasColumn(call.df, c) =>
                 IF ConversionFails(c)
                 THEN Column(ret.table, c) = Column(call.df, c)
                 ELSE \A i \in 1..NRows(ret.table) : Column(ret.table, c)[i].k # "str"

-----------------------------------------------------------------------------
(* PriceCleaner: the claim about clean_prices_table, both variants *)

CleanInMemory == pc = "done" /\ call.op = "clean_prices_table"

CleanOnFiles == pc = "done" /\ call.op = "clean_prices_file" /\ call.input.kind = "file"

CleanInput == IF call.op = "clean_prices_table" THEN call.df ELSE call.input.table

CleanRename == OrDefault(call.columns_to_rename, DefaultColumnsToRename)

\* Plant and the keys of the rename map that the input table lacks
CleanAbsent ==
    {c \in {"Plant"} \cup {CleanRename[i][1] : i \in 1..Len(CleanRename)} :
        ~HasColumn(CleanInput, c)}

\* the table the call hands back: returned by the one variant, written by the other
CleanResult == IF call.op = "clean_prices_table" THEN ret.table ELSE out_file.table

HasCleanResult ==
    IF call.op = "clean_prices_table" THEN ret.kind = "table" ELSE out_file.kind = "file"

\* the columns whose cells the call may rewrite: the default price columns, when the
\* in-memory variant is called without columns_to_format
Reformatted ==
    IF call.op = "clean_prices_table" /\ ~call.columns_to_format.given
    THEN Range(DefaultColumnsToFormat) ELSE {}

\* the numbers of the input rows of the plant wanted, in input order
PlantRows ==
    SelectSeq([i \in 1..NRows(CleanInput) |-> i],
              LAMBDA i : Column(CleanInput, "Plant")[i] = IntV(call.plant))

\* C10: when Plant or a key of the rename map is absent, clean_prices_table fails with
\* an error that lists all the absent names and hands back no table; otherwise the
\* result holds the rows with Plant == plant, in input order, renumbered from zero, the
\* keys of the rename map renamed and the other column names unchanged.
C10_CleanPrices ==
    (CleanInMemory \/ CleanOnFiles)
    => IF CleanAbsent # {}
       THEN /\ ~HasCleanResult
            /\ ret.kind # "table" /\ out_file = NoFile
            /\ CleanInMemory => (ret.kind = "raise" /\ Range(ret.cols) = CleanAbsent)
            /\ \E i \in 1..Len(log) :
                  /\ log[i].level = "error" /\ log[i].msg = "Missing expected columns"
                  /\ Range(log[i].cols) = CleanAbsent
       ELSE /\ HasCleanResult
            /\ NRows(CleanResult) = Len(PlantRows)
            /\ CleanResult.index = RangeIndex(Len(PlantRows))
            /\ Len(CleanResult.columns) = Len(CleanInput.columns)
            /\ \A j \in 1..Len(CleanInput.columns) :
                  /\ CleanResult.columns[j] =
                        IF \E m \in 1..Len(CleanRename) : CleanRename[m][1] = CleanInput.columns[j]
                        THEN CleanRename[CHOOSE m \in 1..Len(CleanRename) :
                                            CleanRename[m][1] = CleanInput.columns[j]][2]
                        ELSE CleanInput.columns[j]
                  /\ CleanInput.columns[j] \notin Reformatted =>
                        \A i \in 1..Len(PlantRows) :
                            CleanResult.rows[i][j] = CleanInput.rows[PlantRows[i]][j]

\* the in-memory variant drops the first of two rows, keeps the second and renames Material
C10_Witness ==
    /\ CleanInMemory
    /\ CleanAbsent = {}
    /\ NRows(call.df) = 2
    /\ PlantRows = <<2>>
    /\ ret.kind = "table"
    /\ HasColumn(call.df, "Material")
    /\ HasColumn(ret.table, "SKU_CODE")
    /\ ~HasColumn(ret.table, "Material")

-----------------------------------------------------------------------------
(* DerivedColumnBuilder and Formulas: the claims about create_column and markup *)

ColumnDone == pc = "done" /\ call.op = "create_column"

MarkupDone == pc = "done" /\ call.op = "markup"

\* what the formula of the call gives on the table of the call
FormulaValue == ApplyFormula(call.df, call.formula.v)

\* the cells of the new column once the formatter has run over the assigned table
FormattedValues ==
    Column(ApplyFormatter(AssignColumn(call.df, call.column_name, FormulaValue.values),
                          call.column_name).ret.table,
           call.column_name)

\* C11: for every table that holds afterColumn, create_column called with a formula, a
\* formatter and afterColumn computes, then formats, then repositions: it returns a
\* table in which columnName holds the formatted formula values and stands right after
\* afterColumn, the other columns keeping their relative order.
C11_AsStated ==
    (ColumnDone /\ call.formula.given /\ call.formatter_func.given
        /\ call.after_column_name.given
        /\ HasColumn(call.df, call.after_column_name.v)
        /\ call.after_column_name.v # call.column_name
        /\ FormulaValue.kind = "series")
    => /\ ret.kind = "table"
       /\ IndexOf(ret.table.columns, call.column_name)
             = IndexOf(ret.table.columns, call.after_column_name.v) + 1
       /\ KeepsOrder(call.df.columns, ret.table.columns, <<call.column_name>>)
       /\ Column(ret.table, call.column_name) = FormattedValues

\* the exception of an unsupported country: a ValueError that names the country
CountryError(country) ==
    /\ ret.kind = "raise"
    /\ ret.exc = "ValueError"
    /\ ret.msg = "Country is not supported"
    /\ ret.cols = <<country>>

\* C12: for every table and every country outside BG, RO, GR, markup fails with the
\* error of the unsupported country whatever the price columns are (absent, or holding
\* text), returns no sequence and leaves the table as it was; as the formula of
\* create_column it makes create_column fail the same way, and no column named
\* columnName is added or overwritten.
C12_UnsupportedCountry ==
    /\ (MarkupDone /\ call.country \notin {"BG", "RO", "GR"})
          => /\ CountryError(call.country)
             /\ caller_frame = call.df
    /\ (ColumnDone /\ call.formula.given /\ call.formula.v.country \notin {"BG", "RO", "GR"})
          => /\ CountryError(call.formula.v.country)
             /\ caller_frame = call.df
             /\ log = <<>>

\* create_column was to overwrite the existing column M of a table with rows, the
\* formula was markup for FR over a cost column the table lacks, and the call failed on
\* the country with the table untouched
C12_Witness ==
    /\ ColumnDone
    /\ call.column_name = "M"
    /\ HasColumn(call.df, "M")
    /\ NRows(call.df) >= 1
    /\ call.formula.given
    /\ call.formula.v.country = "FR"
    /\ ~HasColumn(call.df, call.formula.v.cost_price_column_name)
    /\ CountryError("FR")
    /\ caller_frame = call.df

-----------------------------------------------------------------------------
(* Error model: the claim about the preconditions of markup, move_columns and
   create_column *)

\* the price columns of the call of markup that the table lacks
MarkupAbsent ==
    {c \in {call.cost_price_column_name, call.sale_price_column_name} : ~HasColumn(call.df, c)}

\* the names of columns_to_move, as move_columns takes them, that the table lacks
MoveAbsent ==
    {c \in Range(EffectiveColumnsToMove(call.columns_to_move)) : ~HasColumn(call.input.table, c)}

\* the error messages of the log
ErrorsLogged == SelectSeq(log, LAMBDA e : e.level = "error")

\* C13: every transform checks all of its structural preconditions before it has any
\* effect and reports them as one failure that names every cause: markup with an
\* unsupported country and a price column absent names the country and the column;
\* move_columns with the anchor absent and names of columnsToMove absent logs one error
\* naming all of them and writes nothing; create_column with afterColumn absent fails
\* on that column; in each case the input table is as it was before the call.
C13_AsStated ==
    /\ (MarkupDone /\ call.country \notin {"BG", "RO", "GR"} /\ MarkupAbsent # {})
          => /\ ret.kind = "raise"
             /\ {call.country} \cup MarkupAbsent \subseteq Range(ret.cols)
             /\ caller_frame = call.df
    /\ (MoveDone /\ ~HasColumn(call.input.table, call.after_column) /\ MoveAbsent # {})
          => /\ ret.kind # "table"
             /\ out_file = NoFile
             /\ Len(ErrorsLogged) = 1
             /\ {call.after_column} \cup MoveAbsent \subseteq Range(ErrorsLogged[1].cols)
    /\ (ColumnDone /\ call.after_column_name.given /\ call.after_column_name.v # ""
           /\ call.after_column_name.v # call.column_name
           /\ ~HasColumn(call.df, call.after_column_name.v))
          => /\ ret.kind = "raise"
             /\ call.after_column_name.v \in Range(ret.cols)
             /\ caller_frame = call.df

-----------------------------------------------------------------------------
(* StockProcessor on files: the claim about process_stock_report of src/main.py *)

ReportDone == pc = "done" /\ call.op = "process_stock_report"

\* C14: in process_stock_report, "Saved to <output>" is logged only in runs that wrote
\* the output file; in a run where reading, dropping, filtering or coercion fails and
\* an error is logged, no "Saved to" message follows the error.
C14_AsStated ==
    ReportDone
    => /\ Logged("info", "Saved to") => out_file.kind = "file"
       /\ \A i \in 1..Len(log) :
             log[i].level = "error" => \A j \in (i + 1)..Len(log) : log[j].msg # "Saved to"

-----------------------------------------------------------------------------
(* PriceCleaner: the claim about columns_to_format of clean_prices_table *)

\* the columns the call asks to format: the list handed in, or the default
ToFormat == OrDefault(call.columns_to_format, DefaultColumnsToFormat)

\* the input table with the columns of ToFormat run through price_to_float
Converted == PriceToFloat(call.df, Some(ToFormat)).ret.table

\* C15: in clean_prices_table of src/prices/prices.py, the columns named in
\* columns_to_format that the table holds come back as price_to_float converts them,
\* when columns_to_format is omitted (SalePrice, InitialPrice, PurchasePrice) and when
\* the caller passes a list.
C15_AsStated ==
    (CleanInMemory /\ ret.kind = "table")
    => \A j \in 1..Len(call.df.columns) :
          In(call.df.columns[j], ToFormat) =>
              \A i \in 1..Len(PlantRows) :
                  ret.table.rows[i][j] = Converted.rows[PlantRows[i]][j]

====
